---------------------------- MODULE Spec2Model ----------------------------
(***************************************************************************)
(* A model of riptide_engine_docker: the container builder                *)
(* (container_builder.py) and the Docker engine (engine.py).              *)
(*                                                                         *)
(* Python values: a dict is a function with a finite domain (the order of  *)
(* its items is not modelled), a list is a sequence, a str is a string,    *)
(* None is the value None below.                                           *)
(***************************************************************************)
EXTENDS Integers, Sequences, FiniteSets, TLC

VARIABLES
    \* --- concurrent service starts (container_builder.py:157-169) ---
    lockScope,   \* how far the caller's lock reaches: "none", "publish", "start"
    start_lock,  \* the caller's shared lock: 0 when free, else the holder
    pc,          \* position of each service start
    main_port,   \* the local main_port of each service_add_main_port call
    builders,    \* the ContainerBuilder of each service start
    bound,       \* host ports currently bound on the machine
    probes,      \* number of find_open_port_starting_at calls made so far
    \* --- one builder (container_builder.py:35-263) ---
    builder,     \* the ContainerBuilder
    calls,       \* the set_env/set_label/set_mount/set_port calls made on it, in order
    image_config,     \* the image metadata object handed to the builder
    platform_system,  \* platform.system() of the machine
    lastOp,      \* the method called last on the builder
    steps,       \* number of mutator calls made on the builder
    api,         \* the result of build_docker_api, once called
    cli,         \* the result of build_docker_cli, once called
    \* --- the engine (engine.py) ---
    call,        \* the DockerEngine method being executed and its position
    queues,      \* every ResultQueue created, in order of creation
    tasks,       \* every task handed to the executor
    networks,    \* the networks network.start has ensured
    containers,  \* the runtime's containers, by name
    returned,    \* how the last finished call ended
    delegated,   \* the calls made to the delegates and callbacks, in order
    images,      \* the images in the runtime's local store
    \* --- service initialisation and naming (container_builder.py:124-155, 266-345) ---
    service_doc, \* the Service document handed to init_from_service
    results      \* the container names computed by the running processes, in order

portVars == <<lockScope, start_lock, pc, main_port, builders, bound, probes>>
mapVars == <<builder, calls>>
buildVars == <<image_config, platform_system, lastOp, steps, api, cli>>
engineVars == <<call, queues, tasks, networks, containers, returned,
                delegated, images>>
docVars == <<service_doc, results>>
vars == <<portVars, mapVars, buildVars, engineVars, docVars>>

---------------------------------------------------------------------------
(* Bounds *)

\* number of services started concurrently
NumServices == 3
\* number of host ports above the base that another process may hold
MaxForeign == 1
\* number of map mutator calls made on one builder
MaxCalls == 3
\* number of mutator calls made on a builder before it is built
MaxSteps == 3
\* length of the list of service names given to start_project / stop_project
MaxNames == 2
\* number of progress lines streamed during one pull_images call
MaxLines == 2
\* number of container names computed in one behaviour
MaxRuns == 2

---------------------------------------------------------------------------
(* Python helpers *)

None == "<None>"

\* truth value of an Optional[str]: None and "" are falsy
Truthy(x) == x # None /\ x # ""

EmptyDict == [x \in {} |-> None]

\* d[k] = v
Put(d, k, v) == [x \in (DOMAIN d) \cup {k} |-> IF x = k THEN v ELSE d[x]]

\* a str or a list of str, told apart as isinstance(x, list) does
Str(v) == [str |-> v]
List(v) == [list |-> v]
NoneValue == [none |-> TRUE]
IsList(x) == "list" \in DOMAIN x
IsStr(x) == "str" \in DOMAIN x

\* not x
Falsy(x) ==
    \/ "none" \in DOMAIN x
    \/ IsList(x) /\ Len(x.list) = 0
    \/ IsStr(x) /\ x.str = ""

\* sep.join(words)
RECURSIVE Join(_, _)
Join(words, sep) ==
    IF Len(words) = 0 THEN ""
    ELSE IF Len(words) = 1 THEN words[1]
    ELSE words[1] \o sep \o Join(Tail(words), sep)

\* ['"%s"' % w for w in words]
Quoted(words) == [i \in 1 .. Len(words) |-> "\"" \o words[i] \o "\""]

\* the keys of a dict in the order a loop over it visits them (some order)
KeySeq(d) ==
    CHOOSE sq \in [1 .. Cardinality(DOMAIN d) -> DOMAIN d] :
        \A i, j \in 1 .. Cardinality(DOMAIN d) : i # j => sq[i] # sq[j]

---------------------------------------------------------------------------
(* container_builder.py: constants *)

RIPTIDE_DOCKER_LABEL_IS_RIPTIDE == "riptide"
RIPTIDE_DOCKER_LABEL_HTTP_PORT == "riptide_port"
ENTRYPOINT_CONTAINER_PATH == "/entrypoint_riptide.sh"
EENV_DONT_RUN_CMD == "RIPTIDE__DOCKER_DONT_RUN_CMD"
EENV_ORIGINAL_ENTRYPOINT == "RIPTIDE__DOCKER_ORIGINAL_ENTRYPOINT"
DOCKER_ENGINE_HTTP_PORT_BND_START == 30000

---------------------------------------------------------------------------
(* container_builder.py: ContainerBuilder *)

\* docker.types.Mount(target, source, type, read_only, consistency)
Mount(target, source, type, read_only, consistency) ==
    [Target |-> target, Source |-> source, Type |-> type,
     ReadOnly |-> read_only, Consistency |-> consistency]

set_env_first_wins(b, name, val) ==
    IF name \in DOMAIN b.env THEN b ELSE [b EXCEPT !.env = Put(@, name, val)]

set_env(b, name, val) == [b EXCEPT !.env = Put(@, name, val)]

set_label_first_wins(b, name, val) ==
    IF name \in DOMAIN b.labels THEN b ELSE [b EXCEPT !.labels = Put(@, name, val)]

set_label(b, name, val) == [b EXCEPT !.labels = Put(@, name, val)]

set_mount(b, host_path, container_path, mode) ==
    [b EXCEPT !.mounts = Put(@, host_path,
        Mount(container_path, host_path, "bind", mode = "ro", "delegated"))]

set_port(b, cnt, host) == [b EXCEPT !.ports = Put(@, cnt, host)]

set_network(b, network) == [b EXCEPT !.network = network]

set_name(b, name) == [b EXCEPT !.name = name]

set_entrypoint(b, entrypoint) == [b EXCEPT !.entrypoint = entrypoint]

set_args(b, args) == [b EXCEPT !.args = args]

set_workdir(b, work_dir) == [b EXCEPT !.work_dir = work_dir]

set_hostname(b, hostname) == [b EXCEPT !.hostname = hostname]

\* ContainerBuilder.__init__
ContainerBuilder(image, command) ==
    set_label([env |-> EmptyDict, labels |-> EmptyDict, mounts |-> EmptyDict,
               ports |-> EmptyDict, network |-> None, name |-> None,
               entrypoint |-> None, command |-> command, args |-> << >>,
               work_dir |-> None, image |-> image, run_as_root |-> FALSE,
               hostname |-> None],
              RIPTIDE_DOCKER_LABEL_IS_RIPTIDE, "1")

---------------------------------------------------------------------------
(* container_builder.py: the entrypoint protocol *)

\* os.path.join(riptide_engine_docker_assets_dir(), 'entrypoint.sh')
ENTRYPOINT_SCRIPT == "/assets/entrypoint.sh"

\* parse_entrypoint setting the don't-run flag for every entrypoint that is set
parse_entrypoint_flag_always(entrypoint) ==
    IF Falsy(entrypoint)
    THEN (EENV_ORIGINAL_ENTRYPOINT :> "")
    ELSE IF IsList(entrypoint)
    THEN (EENV_ORIGINAL_ENTRYPOINT :>
              Head(entrypoint.list) \o " " \o Join(Quoted(Tail(entrypoint.list)), " "))
            @@ (EENV_DONT_RUN_CMD :> "true")
    ELSE (EENV_ORIGINAL_ENTRYPOINT :> "/bin/sh -c " \o entrypoint.str)
            @@ (EENV_DONT_RUN_CMD :> "true")

\* parse_entrypoint: the dict it returns
parse_entrypoint(entrypoint) ==
    IF Falsy(entrypoint)
    THEN (EENV_ORIGINAL_ENTRYPOINT :> "")
    ELSE IF IsList(entrypoint)
    THEN LET command == Head(entrypoint.list)
             arguments == Join(Quoted(Tail(entrypoint.list)), " ")
         IN (EENV_ORIGINAL_ENTRYPOINT :> command \o " " \o arguments)
    ELSE (EENV_ORIGINAL_ENTRYPOINT :> "/bin/sh -c " \o entrypoint.str)
            @@ (EENV_DONT_RUN_CMD :> "true")

\* parse_entrypoint: the entrypoint object after the call; entrypoint.pop(0)
\* on line 294 removes the first element of the caller's list
parse_entrypoint_leaves(entrypoint) ==
    IF ~Falsy(entrypoint) /\ IsList(entrypoint)
    THEN List(Tail(entrypoint.list))
    ELSE entrypoint

\* for key, val in d.items(): self.set_env(key, val)
RECURSIVE set_env_items(_, _, _)
set_env_items(b, d, keys) ==
    IF Len(keys) = 0 THEN b
    ELSE set_env_items(set_env(b, Head(keys), d[Head(keys)]), d, Tail(keys))

\* ContainerBuilder.enable_riptide_entrypoint: the builder after the call
enable_riptide_entrypoint(b, config) ==
    LET rooted  == [b EXCEPT !.run_as_root = TRUE]
        mounted == set_mount(rooted, ENTRYPOINT_SCRIPT, ENTRYPOINT_CONTAINER_PATH, "ro")
        parsed  == parse_entrypoint(config.Entrypoint)
        withEnv == set_env_items(mounted, parsed, KeySeq(parsed))
    IN set_entrypoint(withEnv, ENTRYPOINT_CONTAINER_PATH)

\* ContainerBuilder.enable_riptide_entrypoint: image_config after the call
enable_riptide_entrypoint_leaves(config) ==
    [config EXCEPT !.Entrypoint = parse_entrypoint_leaves(@)]

---------------------------------------------------------------------------
(* container_builder.py: build_docker_api and build_docker_cli *)

\* platform.system().lower().startswith('mac')
LowerStartsWithMac(system) ==
    CASE system = "Linux" -> FALSE
      [] system = "Darwin" -> FALSE
      [] system = "Windows" -> FALSE

\* str_command of lines 190-192 and command of lines 255-257
JoinedCommand(command) ==
    IF IsList(command) THEN Join(command.list, " ") ELSE command.str

\* the optional entry of a dict
Entry(cond, key, val) == IF cond THEN (key :> val) ELSE EmptyDict

\* ContainerBuilder.build_docker_api
build_docker_api(b, detach, remove) ==
    ("detach" :> detach) @@ ("remove" :> remove) @@ ("image" :> b.image)
    @@ ("command" :>
          IF Len(b.args) > 0
          THEN Str(JoinedCommand(b.command) \o " " \o Join(Quoted(b.args), " "))
          ELSE b.command)
    @@ Entry(Truthy(b.name), "name", b.name)
    @@ Entry(Truthy(b.network), "network", b.network)
    @@ Entry(Truthy(b.entrypoint), "entrypoint", <<b.entrypoint>>)
    @@ Entry(Truthy(b.work_dir), "working_dir", b.work_dir)
    @@ Entry(b.run_as_root, "user", 0)
    @@ Entry(Truthy(b.hostname), "hostname", b.hostname)
    @@ ("environment" :> b.env)
    @@ ("labels" :> b.labels)
    @@ ("ports" :> b.ports)
    @@ ("mounts" :> [i \in 1 .. Cardinality(DOMAIN b.mounts) |->
                        b.mounts[KeySeq(b.mounts)[i]]])

\* the optional tokens of the command line
Tokens(cond, toks) == IF cond THEN toks ELSE << >>

\* shell += [flag, text] for every text, in order
RECURSIVE FlagEach(_, _)
FlagEach(flag, texts) ==
    IF Len(texts) = 0 THEN << >>
    ELSE <<flag, Head(texts)>> \o FlagEach(flag, Tail(texts))

\* shell += [flag, text(key)] for every key of the dict, in its order
ItemTokens(flag, keys, text) ==
    FlagEach(flag, [i \in 1 .. Len(keys) |-> text[keys[i]]])

\* ContainerBuilder.build_docker_cli
build_docker_cli(b, system) ==
    LET mac_add == IF LowerStartsWithMac(system) THEN ":delegated" ELSE ""
        EnvText == [key \in DOMAIN b.env |-> key \o "=" \o b.env[key]]
        LabelText == [key \in DOMAIN b.labels |-> key \o "=" \o b.labels[key]]
        PortText == [container \in DOMAIN b.ports |->
                        ToString(b.ports[container]) \o ":" \o ToString(container)]
        MountText == [key \in DOMAIN b.mounts |->
            b.mounts[key].Source \o ":" \o b.mounts[key].Target \o ":"
                \o (IF b.mounts[key].ReadOnly THEN "ro" ELSE "rw") \o mac_add]
    IN  <<"docker", "run", "--rm", "-it">>
        \o Tokens(Truthy(b.name), <<"--name", b.name>>)
        \o Tokens(Truthy(b.network), <<"--network", b.network>>)
        \o Tokens(Truthy(b.entrypoint), <<"--entrypoint", b.entrypoint>>)
        \o Tokens(Truthy(b.work_dir), <<"-w", b.work_dir>>)
        \o Tokens(b.run_as_root, <<"-u", ToString(0)>>)
        \o Tokens(Truthy(b.hostname), <<"--hostname", b.hostname>>)
        \o ItemTokens("-e", KeySeq(b.env), EnvText)
        \o ItemTokens("--label", KeySeq(b.labels), LabelText)
        \o ItemTokens("-p", KeySeq(b.ports), PortText)
        \o ItemTokens("-v", KeySeq(b.mounts), MountText)
        \o <<b.image,
             JoinedCommand(b.command) \o " " \o Join(Quoted(b.args), " ")>>

---------------------------------------------------------------------------
(* The port allocator and the host's ports *)

\* riptide.config.service.ports.find_open_port_starting_at: the first port
\* at or above start that is not bound at the time of the call
find_open_port_starting_at(start, boundNow) ==
    CHOOSE p \in start .. (start + Cardinality(boundNow)) :
        /\ p \notin boundNow
        /\ \A q \in start .. (p - 1) : q \in boundNow

\* "port" in service
DeclaresPort(service) == "port" \in DOMAIN service

\* lines 168-169 with the probed port, a bug variant: the label carries the
\* base port instead of the probed one
service_add_main_port_label_base(b, service, port) ==
    IF DeclaresPort(service)
    THEN set_port(set_label(b, RIPTIDE_DOCKER_LABEL_HTTP_PORT,
                            ToString(DOCKER_ENGINE_HTTP_PORT_BND_START)),
                  service.port, port)
    ELSE b

\* a bug variant: every service start publishes the base port
service_add_main_port_fixed(b, service, port) ==
    IF DeclaresPort(service)
    THEN set_port(set_label(b, RIPTIDE_DOCKER_LABEL_HTTP_PORT,
                            ToString(DOCKER_ENGINE_HTTP_PORT_BND_START)),
                  service.port, DOCKER_ENGINE_HTTP_PORT_BND_START)
    ELSE b

\* a bug variant: the network is touched too
service_add_main_port_extra(b, service, port) ==
    IF DeclaresPort(service)
    THEN set_network(set_port(set_label(b, RIPTIDE_DOCKER_LABEL_HTTP_PORT,
                                        ToString(port)),
                              service.port, port), "bridge")
    ELSE b

\* ContainerBuilder.service_add_main_port, lines 166-169, where port is the
\* value find_open_port_starting_at returned on line 167
service_add_main_port(b, service, port) ==
    IF DeclaresPort(service)
    THEN set_port(set_label(b, RIPTIDE_DOCKER_LABEL_HTTP_PORT, ToString(port)),
                  service.port, port)
    ELSE b

---------------------------------------------------------------------------
(* container_builder.py: initialising a builder from a service *)

RIPTIDE_DOCKER_LABEL_SERVICE == "riptide_service"
RIPTIDE_DOCKER_LABEL_PROJECT == "riptide_project"
RIPTIDE_DOCKER_LABEL_MAIN == "riptide_main"
EENV_USER == "RIPTIDE__DOCKER_USER"
EENV_USER_RUN == "RIPTIDE__DOCKER_USER_RUN"
EENV_GROUP == "RIPTIDE__DOCKER_GROUP"
EENV_RUN_MAIN_CMD_AS_USER == "RIPTIDE__DOCKER_RUN_MAIN_CMD_AS_USER"
EENV_COMMAND_LOG_PREFIX == "RIPTIDE__DOCKER_CMD_LOGGING_"

\* d.update(e)
Update(d, e) ==
    [k \in (DOMAIN d) \cup (DOMAIN e) |-> IF k \in DOMAIN e THEN e[k] ELSE d[k]]

\* what the document hands over: doc.collect_volumes(),
\* doc.collect_environment(), service.collect_ports(), service.get_project()
collect_volumes(doc) == doc.volumes
collect_environment(doc) == doc.environment
collect_ports(doc) == doc.additional_ports
get_project(doc) == [name |-> doc.project]

\* volume['mode'] or 'rw'
ModeOrRw(mode) == IF Truthy(mode) THEN mode ELSE "rw"

\* service_collect_logging_commands
service_collect_logging_commands(service) ==
    IF "logging" \in DOMAIN service /\ "commands" \in DOMAIN service.logging
    THEN [k \in {EENV_COMMAND_LOG_PREFIX \o cmdname :
                    cmdname \in DOMAIN service.logging.commands} |->
             LET cmdname == CHOOSE c \in DOMAIN service.logging.commands :
                                k = EENV_COMMAND_LOG_PREFIX \o c
             IN service.logging.commands[cmdname]]
    ELSE EmptyDict

\* a variant of lines 324-331 with "if" in place of "elif": the image's user
\* is taken even when run_as_current_user is set
service_collect_entrypoint_user_settings_if(service, user, user_group, config) ==
    LET created == IF ~service.dont_create_user
                   THEN (EENV_USER :> ToString(user)) @@ (EENV_GROUP :> ToString(user_group))
                   ELSE EmptyDict
        current == IF service.run_as_current_user
                   THEN Put(created, EENV_RUN_MAIN_CMD_AS_USER, "yes")
                   ELSE created
    IN IF "User" \in DOMAIN config /\ config.User # ""
       THEN Put(Put(current, EENV_RUN_MAIN_CMD_AS_USER, "yes"), EENV_USER_RUN, config.User)
       ELSE current

\* service_collect_entrypoint_user_settings
service_collect_entrypoint_user_settings(service, user, user_group, config) ==
    LET created == IF ~service.dont_create_user
                   THEN (EENV_USER :> ToString(user)) @@ (EENV_GROUP :> ToString(user_group))
                   ELSE EmptyDict
    IN IF service.run_as_current_user
       THEN Put(created, EENV_RUN_MAIN_CMD_AS_USER, "yes")
       ELSE IF "User" \in DOMAIN config /\ config.User # ""
       THEN Put(Put(created, EENV_RUN_MAIN_CMD_AS_USER, "yes"), EENV_USER_RUN, config.User)
       ELSE created

\* "main" in service["roles"]
HasRole(service, role) ==
    \E i \in 1 .. Len(service.roles) : service.roles[i] = role

\* service_collect_labels
service_collect_labels(service, project_name) ==
    LET labels == (RIPTIDE_DOCKER_LABEL_IS_RIPTIDE :> "1")
                    @@ (RIPTIDE_DOCKER_LABEL_PROJECT :> project_name)
                    @@ (RIPTIDE_DOCKER_LABEL_SERVICE :> service["$name"])
                    @@ (RIPTIDE_DOCKER_LABEL_MAIN :> "0")
    IN IF "roles" \in DOMAIN service /\ HasRole(service, "main")
       THEN Put(labels, RIPTIDE_DOCKER_LABEL_MAIN, "1")
       ELSE labels

\* for host, volume in d.items(): self.set_mount(host, volume['bind'], volume['mode'] or 'rw')
RECURSIVE set_mount_items(_, _, _)
set_mount_items(b, d, keys) ==
    IF Len(keys) = 0 THEN b
    ELSE set_mount_items(set_mount(b, Head(keys), d[Head(keys)].bind,
                                   ModeOrRw(d[Head(keys)].mode)),
                         d, Tail(keys))

\* for name, val in d.items(): self.set_label(name, val)
RECURSIVE set_label_items(_, _, _)
set_label_items(b, d, keys) ==
    IF Len(keys) = 0 THEN b
    ELSE set_label_items(set_label(b, Head(keys), d[Head(keys)]), d, Tail(keys))

\* for container, host in d.items(): self.set_port(container, host)
RECURSIVE set_port_items(_, _, _)
set_port_items(b, d, keys) ==
    IF Len(keys) = 0 THEN b
    ELSE set_port_items(set_port(b, Head(keys), d[Head(keys)]), d, Tail(keys))

\* ContainerBuilder._init_common: the builder after the call
init_common(b, doc, config) ==
    LET entered == enable_riptide_entrypoint(b, config)
        volumes == collect_volumes(doc)
        mounted == set_mount_items(entered, volumes, KeySeq(volumes))
        environment == collect_environment(doc)
    IN set_env_items(mounted, environment, KeySeq(environment))

\* ContainerBuilder.init_from_command: the builder after the call
init_from_command(b, command, config) == init_common(b, command, config)

\* init_from_service followed by the main port of lines 166-169, as if the
\* two were one step; port is what the allocator returns
init_from_service_with_main_port(b, service, config, user, user_group, port) ==
    LET common == init_common(b, service, config)
        labels == service_collect_labels(service, get_project(service).name)
        ports == collect_ports(service)
        environment_updates ==
            Update(service_collect_logging_commands(service),
                   service_collect_entrypoint_user_settings(service, user, user_group,
                                                            config))
        withEnv == set_env_items(common, environment_updates, KeySeq(environment_updates))
        withLabels == set_label_items(withEnv, labels, KeySeq(labels))
    IN service_add_main_port(set_port_items(withLabels, ports, KeySeq(ports)),
                             service, port)

\* init_from_service with the declared environment applied after the
\* logging and privilege variables
init_from_service_environment_last(b, service, config, user, user_group, port) ==
    LET applied == init_from_service_with_main_port(b, service, config, user,
                                                    user_group, port)
        plain == [applied EXCEPT !.labels = [k \in DOMAIN @ \ {RIPTIDE_DOCKER_LABEL_HTTP_PORT}
                                                |-> @[k]],
                                 !.ports = collect_ports(service)]
        environment == collect_environment(service)
    IN set_env_items(plain, environment, KeySeq(environment))

\* ContainerBuilder.init_from_service: the builder after the call. port is
\* what the allocator would return; init_from_service does not ask it
init_from_service(b, service, config, user, user_group, port) ==
    LET common == init_common(b, service, config)
        labels == service_collect_labels(service, get_project(service).name)
        ports == collect_ports(service)
        environment_updates ==
            Update(service_collect_logging_commands(service),
                   service_collect_entrypoint_user_settings(service, user, user_group,
                                                            config))
        withEnv == set_env_items(common, environment_updates, KeySeq(environment_updates))
        withLabels == set_label_items(withEnv, labels, KeySeq(labels))
    IN set_port_items(withLabels, ports, KeySeq(ports))

---------------------------------------------------------------------------
(* Concurrent service starts *)

PortServices == 1 .. NumServices

\* the service documents: the last service declares no primary port
ServiceDoc(s) ==
    IF s = NumServices
    THEN [name |-> "svc" \o ToString(s)]
    ELSE [name |-> "svc" \o ToString(s), port |-> 8000 + s]

\* the builder a service start holds before service_add_main_port: the
\* constructor's state plus one declared additional port
InitialBuilder(s) ==
    set_port(set_name(ContainerBuilder("image", Str("cmd")), ServiceDoc(s).name),
             443, 8443 + s)

HostPorts(b) == {b.ports[c] : c \in DOMAIN b.ports}

\* the variables of the other parts of the model stay as they are
IdleEngine ==
    /\ call = [op |-> "idle"]
    /\ queues = << >>
    /\ tasks = << >>
    /\ networks = {}
    /\ containers = EmptyDict
    /\ returned = [op |-> "none"]
    /\ delegated = << >>
    /\ images = {}
    /\ service_doc = [name |-> "none"]
    /\ results = << >>

IdleMaps == builder = ContainerBuilder("image", Str("cmd")) /\ calls = << >>

IdleBuild ==
    /\ image_config = [Entrypoint |-> NoneValue]
    /\ platform_system = "Linux"
    /\ lastOp = "init"
    /\ steps = 0
    /\ api = [built |-> FALSE]
    /\ cli = [built |-> FALSE]

InitPorts ==
    /\ IdleMaps
    /\ IdleBuild
    /\ IdleEngine
    /\ lockScope \in {"none", "publish", "start"}
    /\ start_lock = 0
    /\ pc = [s \in PortServices |-> "idle"]
    /\ main_port = [s \in PortServices |-> 0]
    /\ builders = [s \in PortServices |-> InitialBuilder(s)]
    /\ bound \in {DOCKER_ENGINE_HTTP_PORT_BND_START ..
                    (DOCKER_ENGINE_HTTP_PORT_BND_START + k - 1) : k \in 0 .. MaxForeign}
    /\ probes = 0

\* the caller takes the shared lock before service_add_main_port
Acquire(s) ==
    /\ lockScope # "none"
    /\ pc[s] = "idle"
    /\ start_lock = 0
    /\ start_lock' = s
    /\ pc' = [pc EXCEPT ![s] = "locked"]
    /\ UNCHANGED <<lockScope, main_port, builders, bound, probes>>

AtEntry(s) == pc[s] = (IF lockScope = "none" THEN "idle" ELSE "locked")

\* service_add_main_port, lines 166-167: the probe
Probe(s) ==
    /\ AtEntry(s)
    /\ DeclaresPort(ServiceDoc(s))
    /\ main_port' = [main_port EXCEPT ![s] =
            find_open_port_starting_at(DOCKER_ENGINE_HTTP_PORT_BND_START, bound)]
    /\ probes' = probes + 1
    /\ pc' = [pc EXCEPT ![s] = "probed"]
    /\ UNCHANGED <<lockScope, start_lock, builders, bound>>

\* service_add_main_port, lines 168-169: label and port mapping
Publish(s) ==
    /\ pc[s] = "probed"
    /\ builders' = [builders EXCEPT ![s] =
            service_add_main_port(@, ServiceDoc(s), main_port[s])]
    /\ pc' = [pc EXCEPT ![s] = "published"]
    /\ UNCHANGED <<lockScope, start_lock, main_port, bound, probes>>

\* service_add_main_port on a service without "port": line 166 is false
NoPort(s) ==
    /\ AtEntry(s)
    /\ ~DeclaresPort(ServiceDoc(s))
    /\ builders' = [builders EXCEPT ![s] =
            service_add_main_port(@, ServiceDoc(s), main_port[s])]
    /\ pc' = [pc EXCEPT ![s] = "published"]
    /\ UNCHANGED <<lockScope, start_lock, main_port, bound, probes>>

\* a lock that spans the probe through the publishing of the port only
ReleaseAfterPublish(s) ==
    /\ lockScope = "publish"
    /\ pc[s] = "published"
    /\ start_lock = s
    /\ start_lock' = 0
    /\ pc' = [pc EXCEPT ![s] = "ready"]
    /\ UNCHANGED <<lockScope, main_port, builders, bound, probes>>

ReadyToRun(s) == pc[s] = (IF lockScope = "publish" THEN "ready" ELSE "published")

\* the runtime starts the container and binds its host ports; it refuses a
\* container one of whose host ports is already bound
ContainerRun(s) ==
    /\ ReadyToRun(s)
    /\ IF HostPorts(builders[s]) \cap bound = {}
       THEN /\ bound' = bound \cup HostPorts(builders[s])
            /\ pc' = [pc EXCEPT ![s] = "started"]
       ELSE /\ bound' = bound
            /\ pc' = [pc EXCEPT ![s] = "failed"]
    /\ UNCHANGED <<lockScope, start_lock, main_port, builders, probes>>

\* a lock that spans the probe through the start of the container
ReleaseAfterStart(s) ==
    /\ lockScope = "start"
    /\ pc[s] \in {"started", "failed"}
    /\ start_lock = s
    /\ start_lock' = 0
    /\ pc' = [pc EXCEPT ![s] = IF pc[s] = "started" THEN "done" ELSE "gone"]
    /\ UNCHANGED <<lockScope, main_port, builders, bound, probes>>

NextPorts ==
    /\ \E s \in PortServices :
          \/ Acquire(s)
          \/ Probe(s)
          \/ Publish(s)
          \/ NoPort(s)
          \/ ReleaseAfterPublish(s)
          \/ ContainerRun(s)
          \/ ReleaseAfterStart(s)
    /\ UNCHANGED <<mapVars, buildVars, engineVars, docVars>>

SpecPorts == InitPorts /\ [][NextPorts]_vars

---------------------------------------------------------------------------
(* Claims about the main port *)

HasMainPort(s) == RIPTIDE_DOCKER_LABEL_HTTP_PORT \in DOMAIN builders[s].labels

\* the host port a builder publishes for the service's primary port
AssignedPort(s) == builders[s].ports[ServiceDoc(s).port]

NoSharedMainPort ==
    \A s, t \in PortServices :
        (s # t /\ HasMainPort(s) /\ HasMainPort(t)) =>
            /\ AssignedPort(s) # AssignedPort(t)
            /\ builders[s].labels[RIPTIDE_DOCKER_LABEL_HTTP_PORT]
                 # builders[t].labels[RIPTIDE_DOCKER_LABEL_HTTP_PORT]

NoContainerStarted == \A s \in PortServices : pc[s] \notin {"started", "done"}

\* C1 as stated: when every service start holds the shared lock from the
\* allocator probe through publishing the chosen port (set_label, set_port),
\* no two services are assigned the same host port.
C1_LockThroughPublish == (lockScope = "publish") => NoSharedMainPort

\* C1 amended: when every service start holds the shared lock from the
\* allocator probe until its container has been started (so that the port
\* is bound before the next probe), no two services are assigned the same
\* host port for their primary port.
C1_LockThroughStart == (lockScope = "start") => NoSharedMainPort

C1_Witness ==
    /\ lockScope = "start"
    /\ \E s, t \in PortServices :
          /\ s # t
          /\ pc[s] = "done" /\ pc[t] = "done"
          /\ HasMainPort(s) /\ HasMainPort(t)
          /\ AssignedPort(s) # AssignedPort(t)

\* C2: without a lock, two builders that both run service_add_main_port
\* before any container has been started receive the same port from their
\* probes, and both publish and label that same host port.
C2_UnlockedProbesCollide ==
    (lockScope = "none" /\ NoContainerStarted) =>
        \A s, t \in PortServices :
            /\ (pc[s] \in {"probed", "published"} /\ pc[t] \in {"probed", "published"}
                    /\ DeclaresPort(ServiceDoc(s)) /\ DeclaresPort(ServiceDoc(t)))
                  => main_port[s] = main_port[t]
            /\ (HasMainPort(s) /\ HasMainPort(t)) =>
                  /\ AssignedPort(s) = AssignedPort(t)
                  /\ builders[s].labels[RIPTIDE_DOCKER_LABEL_HTTP_PORT]
                        = ToString(AssignedPort(t))

C2_Witness ==
    /\ lockScope = "none"
    /\ \E s, t \in PortServices :
          /\ s # t
          /\ pc[s] = "published" /\ pc[t] = "published"
          /\ HasMainPort(s) /\ HasMainPort(t)
          /\ AssignedPort(s) = AssignedPort(t)
          /\ builders[s].labels[RIPTIDE_DOCKER_LABEL_HTTP_PORT]
                = builders[t].labels[RIPTIDE_DOCKER_LABEL_HTTP_PORT]
          /\ AssignedPort(s) \notin bound

BuilderFields ==
    {"env", "labels", "mounts", "ports", "network", "name", "entrypoint",
     "command", "args", "work_dir", "image", "run_as_root", "hostname"}

\* C8: on a service declaring primary port p, with the allocator returning
\* h, service_add_main_port sets the label riptide_port to h and the port
\* mapping p -> h and changes nothing else in the builder; on a service
\* without a primary port it leaves the builder unchanged and does not call
\* the allocator.
C8_MainPortFrame ==
    [][\A s \in PortServices :
        LET b  == builders[s]
            b2 == builders'[s]
        IN
        /\ (pc[s] # "probed" /\ pc'[s] = "probed") =>
              /\ b2 = b
              /\ probes' = probes + 1
        /\ (pc[s] = "probed" /\ pc'[s] = "published") =>
              LET p == ServiceDoc(s).port
                  h == main_port[s]
              IN
              /\ DOMAIN b2.labels = (DOMAIN b.labels) \cup {RIPTIDE_DOCKER_LABEL_HTTP_PORT}
              /\ b2.labels[RIPTIDE_DOCKER_LABEL_HTTP_PORT] = ToString(h)
              /\ \A k \in (DOMAIN b.labels) \ {RIPTIDE_DOCKER_LABEL_HTTP_PORT} :
                    b2.labels[k] = b.labels[k]
              /\ DOMAIN b2.ports = (DOMAIN b.ports) \cup {p}
              /\ b2.ports[p] = h
              /\ \A c \in (DOMAIN b.ports) \ {p} : b2.ports[c] = b.ports[c]
              /\ \A f \in BuilderFields \ {"labels", "ports"} : b2[f] = b[f]
              /\ probes' = probes
        /\ (pc[s] # "probed" /\ pc[s] # "published" /\ pc'[s] = "published") =>
              /\ ~DeclaresPort(ServiceDoc(s))
              /\ b2 = b
              /\ probes' = probes
              /\ main_port' = main_port
      ]_vars

C8_Witness ==
    \E s, t \in PortServices :
        /\ DeclaresPort(ServiceDoc(s))
        /\ pc[s] = "published"
        /\ builders[s].ports[ServiceDoc(s).port] = main_port[s]
        /\ main_port[s] > DOCKER_ENGINE_HTTP_PORT_BND_START
        /\ ~DeclaresPort(ServiceDoc(t))
        /\ pc[t] = "published"
        /\ builders[t] = InitialBuilder(t)

---------------------------------------------------------------------------
(* The map mutators of one builder *)

EnvNames == {"A", "B"}
EnvVals == {"1", "2"}
LabelNames == {RIPTIDE_DOCKER_LABEL_IS_RIPTIDE, "l"}
LabelVals == {"1", "x"}
HostPaths == {"/h1", "/h2"}
ContainerPaths == {"/c1", "/c2"}
Modes == {"rw", "ro"}
ContainerPorts == {80, 443}
HostPortVals == {8080, 8081}

IdlePorts ==
    /\ IdleEngine
    /\ lockScope = "none"
    /\ start_lock = 0
    /\ pc = [s \in PortServices |-> "idle"]
    /\ main_port = [s \in PortServices |-> 0]
    /\ builders = [s \in PortServices |-> InitialBuilder(s)]
    /\ bound = {}
    /\ probes = 0

\* after ContainerBuilder.__init__, which calls set_label once (line 54)
InitMaps ==
    /\ IdlePorts
    /\ IdleBuild
    /\ builder = ContainerBuilder("image", Str("cmd"))
    /\ calls = << [op |-> "set_label", key |-> RIPTIDE_DOCKER_LABEL_IS_RIPTIDE,
                  val |-> "1"] >>

CallSetEnv(name, val) ==
    /\ builder' = set_env(builder, name, val)
    /\ calls' = Append(calls, [op |-> "set_env", key |-> name, val |-> val])

CallSetLabel(name, val) ==
    /\ builder' = set_label(builder, name, val)
    /\ calls' = Append(calls, [op |-> "set_label", key |-> name, val |-> val])

CallSetMount(host_path, container_path, mode) ==
    /\ builder' = set_mount(builder, host_path, container_path, mode)
    /\ calls' = Append(calls, [op |-> "set_mount", key |-> host_path,
                               val |-> <<container_path, mode>>])

CallSetPort(cnt, host) ==
    /\ builder' = set_port(builder, cnt, host)
    /\ calls' = Append(calls, [op |-> "set_port", key |-> cnt, val |-> host])

NextMaps ==
    /\ Len(calls) <= MaxCalls
    /\ \/ \E name \in EnvNames, val \in EnvVals : CallSetEnv(name, val)
       \/ \E name \in LabelNames, val \in LabelVals : CallSetLabel(name, val)
       \/ \E h \in HostPaths, c \in ContainerPaths, m \in Modes : CallSetMount(h, c, m)
       \/ \E cnt \in ContainerPorts, host \in HostPortVals : CallSetPort(cnt, host)
    /\ UNCHANGED <<portVars, buildVars, engineVars, docVars>>

SpecMaps == InitMaps /\ [][NextMaps]_vars

\* the index of the last call of op on key, 0 when there is none
LastCall(op, key) ==
    LET hits == {i \in 1 .. Len(calls) : calls[i].op = op /\ calls[i].key = key}
    IN IF hits = {} THEN 0 ELSE CHOOSE i \in hits : \A j \in hits : j <= i

\* what the map of op must hold given the calls made: for every key that
\* was set, the value of the last call on that key
MapHoldsLastCalls(map, op, keys) ==
    /\ DOMAIN map = {k \in keys : LastCall(op, k) # 0}
    /\ \A k \in DOMAIN map :
          LET given == calls[LastCall(op, k)].val
          IN IF op = "set_mount"
             THEN /\ map[k].Source = k
                  /\ map[k].Target = given[1]
                  /\ map[k].ReadOnly = (given[2] = "ro")
                  /\ map[k].Type = "bind"
             ELSE map[k] = given

\* C5: after any sequence of set_env, set_label, set_mount and set_port
\* calls, each map holds under each key the value of the last call for that
\* key (so calls on other keys or maps do not change it, and the content
\* depends only on the last call per key, not on the order of the calls).
C5_LastCallWins ==
    /\ MapHoldsLastCalls(builder.env, "set_env", EnvNames)
    /\ MapHoldsLastCalls(builder.labels, "set_label", LabelNames)
    /\ MapHoldsLastCalls(builder.mounts, "set_mount", HostPaths)
    /\ MapHoldsLastCalls(builder.ports, "set_port", ContainerPorts)

\* a key set twice with different values, other keys and maps set in between
C5_Witness ==
    \E i, j, k \in 1 .. Len(calls) :
        /\ i < j /\ j < k
        /\ calls[i].op = calls[k].op
        /\ calls[i].key = calls[k].key
        /\ calls[i].val # calls[k].val
        /\ calls[j].op # calls[i].op
        /\ LastCall(calls[i].op, calls[i].key) = k

---------------------------------------------------------------------------
(* One builder: mutators, the entrypoint override, the two builds *)

Commands == {Str("cmd"), List(<<"ls", "-l">>)}
Entrypoints == {NoneValue, List(<<"/bin/foo">>), List(<<"/bin/foo", "a">>),
                Str("echo hi")}
ArgLists == {<<"x">>, <<"x", "y z">>}
PlatformSystems == {"Linux", "Darwin"}

Built(x) == "built" \notin DOMAIN x

InitBuilder ==
    /\ IdlePorts
    /\ calls = << >>
    /\ \E command \in Commands : builder = ContainerBuilder("image", command)
    /\ \E e \in Entrypoints : image_config = [Entrypoint |-> e]
    /\ platform_system \in PlatformSystems
    /\ lastOp = "init"
    /\ steps = 0
    /\ api = [built |-> FALSE]
    /\ cli = [built |-> FALSE]

Mutable == steps < MaxSteps /\ ~Built(api) /\ ~Built(cli)

\* a mutator call that leaves the image metadata alone
Mutate(op, after) ==
    /\ Mutable
    /\ builder' = after
    /\ lastOp' = op
    /\ steps' = steps + 1
    /\ UNCHANGED <<image_config, platform_system, api, cli>>

EnableRiptideEntrypoint ==
    /\ Mutable
    /\ builder' = enable_riptide_entrypoint(builder, image_config)
    /\ image_config' = enable_riptide_entrypoint_leaves(image_config)
    /\ lastOp' = "enable_riptide_entrypoint"
    /\ steps' = steps + 1
    /\ UNCHANGED <<platform_system, api, cli>>

BuildDockerApi(detach, remove) ==
    /\ ~Built(api)
    /\ api' = build_docker_api(builder, detach, remove)
    /\ lastOp' = "build_docker_api"
    /\ UNCHANGED <<builder, image_config, platform_system, steps, cli>>

BuildDockerCli ==
    /\ ~Built(cli)
    /\ cli' = [tokens |-> build_docker_cli(builder, platform_system)]
    /\ lastOp' = "build_docker_cli"
    /\ UNCHANGED <<builder, image_config, platform_system, steps, api>>

NextBuilder ==
    /\ \/ \E name \in EnvNames : Mutate("set_env", set_env(builder, name, "1"))
       \/ Mutate("set_label", set_label(builder, "l", "x"))
       \/ \E m \in Modes : Mutate("set_mount", set_mount(builder, "/h1", "/c1", m))
       \/ Mutate("set_port", set_port(builder, 80, 8080))
       \/ Mutate("set_network", set_network(builder, "net"))
       \/ \E n \in {"", "box"} : Mutate("set_name", set_name(builder, n))
       \/ Mutate("set_entrypoint", set_entrypoint(builder, "/ep"))
       \/ \E a \in ArgLists : Mutate("set_args", set_args(builder, a))
       \/ Mutate("set_workdir", set_workdir(builder, "/w"))
       \/ Mutate("set_hostname", set_hostname(builder, "host"))
       \/ EnableRiptideEntrypoint
       \/ \E detach \in BOOLEAN : BuildDockerApi(detach, TRUE)
       \/ BuildDockerCli
    /\ UNCHANGED <<portVars, calls, engineVars, docVars>>

SpecBuilder == InitBuilder /\ [][NextBuilder]_vars

---------------------------------------------------------------------------
(* What a container launch is, read off the API arguments and off the
   command line as the docker client reads them *)

BoolOptions == {"--rm", "-it"}
ValueOptions == {"--name", "--network", "--entrypoint", "-w", "-u", "--hostname",
                 "-e", "--label", "-p", "-v"}

\* the options of a docker run command line from token i on, and where the
\* positional arguments (image, command) start
RECURSIVE ParseOptions(_, _, _)
ParseOptions(shell, i, opts) ==
    IF i <= Len(shell) /\ shell[i] \in BoolOptions
    THEN ParseOptions(shell, i + 1, opts)
    ELSE IF i + 1 <= Len(shell) /\ shell[i] \in ValueOptions
    THEN ParseOptions(shell, i + 2, opts \cup {<<shell[i], shell[i + 1]>>})
    ELSE [opts |-> opts, rest |-> i]

OptionValues(opts, flag) == {o[2] : o \in {x \in opts : x[1] = flag}}

OptionValue(opts, flag) ==
    IF OptionValues(opts, flag) = {} THEN None
    ELSE CHOOSE v \in OptionValues(opts, flag) : TRUE

KnownEnvNames == EnvNames \cup {EENV_ORIGINAL_ENTRYPOINT, EENV_DONT_RUN_CMD}
KnownEnvVals ==
    EnvVals \cup UNION {{parse_entrypoint(e)[k] : k \in DOMAIN parse_entrypoint(e)} :
                           e \in Entrypoints \cup {List(<<"a">>), List(<< >>)}}
KnownHostPaths == HostPaths \cup {ENTRYPOINT_SCRIPT}
KnownContainerPaths == ContainerPaths \cup {ENTRYPOINT_CONTAINER_PATH}

\* "key=value" split at the separator
SplitAssignment(text, keys, values) ==
    CHOOSE kv \in keys \X values : kv[1] \o "=" \o kv[2] = text

\* "host:container" as <<container, host>>
SplitPort(text) ==
    CHOOSE ch \in ContainerPorts \X HostPortVals :
        ToString(ch[2]) \o ":" \o ToString(ch[1]) = text

\* "source:target:mode[:delegated]" as <<source, target, read_only>>
SplitMount(text) ==
    CHOOSE m \in KnownHostPaths \X KnownContainerPaths \X BOOLEAN :
        \E suffix \in {"", ":delegated"} :
            m[1] \o ":" \o m[2] \o ":" \o (IF m[3] THEN "ro" ELSE "rw") \o suffix = text

LaunchOfCli(shell) ==
    LET p == ParseOptions(shell, 3, {})
    IN [image |-> shell[p.rest],
        command |-> Str(shell[p.rest + 1]),
        name |-> OptionValue(p.opts, "--name"),
        network |-> OptionValue(p.opts, "--network"),
        entrypoint |-> OptionValue(p.opts, "--entrypoint"),
        work_dir |-> OptionValue(p.opts, "-w"),
        hostname |-> OptionValue(p.opts, "--hostname"),
        root |-> OptionValue(p.opts, "-u") = "0",
        env |-> {SplitAssignment(t, KnownEnvNames, KnownEnvVals) :
                    t \in OptionValues(p.opts, "-e")},
        labels |-> {SplitAssignment(t, LabelNames, LabelVals) :
                    t \in OptionValues(p.opts, "--label")},
        ports |-> {SplitPort(t) : t \in OptionValues(p.opts, "-p")},
        mounts |-> {SplitMount(t) : t \in OptionValues(p.opts, "-v")}]

Given(args, key) == IF key \in DOMAIN args THEN args[key] ELSE None

LaunchOfApi(args) ==
    [image |-> args.image,
     command |-> args.command,
     name |-> Given(args, "name"),
     network |-> Given(args, "network"),
     entrypoint |-> IF "entrypoint" \in DOMAIN args THEN args.entrypoint[1] ELSE None,
     work_dir |-> Given(args, "working_dir"),
     hostname |-> Given(args, "hostname"),
     root |-> ("user" \in DOMAIN args /\ args.user = 0),
     env |-> {<<k, args.environment[k]>> : k \in DOMAIN args.environment},
     labels |-> {<<k, args.labels[k]>> : k \in DOMAIN args.labels},
     ports |-> {<<c, args.ports[c]>> : c \in DOMAIN args.ports},
     mounts |-> {<<args.mounts[i].Source, args.mounts[i].Target, args.mounts[i].ReadOnly>> :
                    i \in DOMAIN args.mounts}]

\* two str-or-list values are the same value
SameValue(x, y) ==
    \/ IsStr(x) /\ IsStr(y) /\ x.str = y.str
    \/ IsList(x) /\ IsList(y) /\ x.list = y.list
    \/ Falsy(x) /\ Falsy(y) /\ DOMAIN x = DOMAIN y

LaunchFields == {"image", "name", "network", "entrypoint", "work_dir", "hostname",
                 "root", "env", "labels", "ports", "mounts"}

\* C6: for every builder state, build_docker_api and build_docker_cli
\* describe the same launch: the same image, the same final command string
\* (exactly the original command when there are no extra args), the same
\* name, network, entrypoint, working directory and hostname when set, user
\* 0 in both exactly when run_as_root is set, and the same env entries,
\* labels, port pairs and mounts.
C6_SameLaunch ==
    (Built(api) /\ Built(cli)) =>
        LET a == LaunchOfApi(api)
            c == LaunchOfCli(cli.tokens)
        IN /\ \A f \in LaunchFields : a[f] = c[f]
           /\ SameValue(a.command, c.command)
           /\ (Len(builder.args) = 0 => SameValue(a.command, builder.command))

\* C7: a second enable_riptide_entrypoint call with the same image metadata
\* leaves env, mounts, entrypoint and run_as_root as the first call set them.
C7_SecondEnableChangesNothing ==
    [][(lastOp = "enable_riptide_entrypoint" /\ lastOp' = "enable_riptide_entrypoint")
          => /\ builder'.env = builder.env
             /\ builder'.mounts = builder.mounts
             /\ builder'.entrypoint = builder.entrypoint
             /\ builder'.run_as_root = builder.run_as_root]_vars

---------------------------------------------------------------------------
(* engine.py: DockerEngine *)

\* the project document: service a declares a primary port, b does not;
\* command c1 declares an image, c2 does not; only b's image carries a tag
project ==
    [name |-> "proj",
     app |-> [services |-> [a |-> [image |-> "img", port |-> 80],
                            b |-> [image |-> "img2:1.0"]],
              commands |-> [c1 |-> [image |-> "img3"],
                            c2 |-> [command |-> "ls"]]]]

DeclaredServices == DOMAIN project.app.services

\* the names a caller may ask for: the declared ones and an undeclared one
RequestNames == DeclaredServices \cup {"ghost"}

RECURSIVE ListsUpTo(_)
ListsUpTo(n) ==
    IF n = 0 THEN {<< >>}
    ELSE ListsUpTo(n - 1)
            \cup {Append(l, x) : l \in {m \in ListsUpTo(n - 1) : Len(m) = n - 1},
                                 x \in RequestNames}

ServiceLists == ListsUpTo(MaxNames)

get_network_name(project_name) == "riptide__" \o project_name

get_service_container_name(project_name, service_name) ==
    "riptide__" \o project_name \o "__" \o service_name

\* how a method ends
Return(value) == [kind |-> "return", value |-> value]
Raise(exception) == [kind |-> "raise", exception |-> exception]

\* the None that address_for returns
NoAddress == << >>

\* the states a service container can be in; no entry means no container
ContainerStates ==
    {[status |-> "exited", labels |-> (RIPTIDE_DOCKER_LABEL_HTTP_PORT :> "30000")],
     [status |-> "running", labels |-> (RIPTIDE_DOCKER_LABEL_HTTP_PORT :> "30000")],
     [status |-> "running", labels |-> (RIPTIDE_DOCKER_LABEL_IS_RIPTIDE :> "1")]}

ContainerName(service_name) == get_service_container_name(project.name, service_name)

\* the loop body of start_project without the membership test of line 44
start_project_iteration_unchecked(qs, ts, service_name) ==
    LET queue == Len(qs) + 1
    IN [queues |-> Append(qs, [service |-> service_name, state |-> "open"]),
        tasks |-> Append(ts, [fn |-> "service.start", service |-> service_name,
                              queue |-> queue, state |-> "scheduled"]),
        awaits |-> 0]

\* the loop body of start_project waiting for the future it created
start_project_iteration_blocking(qs, ts, service_name) ==
    LET queue == Len(qs) + 1
        opened == Append(qs, [service |-> service_name, state |-> "open"])
    IN IF service_name \in DeclaredServices
       THEN [queues |-> opened,
             tasks |-> Append(ts, [fn |-> "service.start", service |-> service_name,
                                   queue |-> queue, state |-> "scheduled"]),
             awaits |-> Len(ts) + 1]
       ELSE [queues |-> [opened EXCEPT ![queue].state = "error: Service not found."],
             tasks |-> ts,
             awaits |-> 0]

\* DockerEngine.start_project, lines 40-59: one pass of the loop. awaits is
\* the task the method waits for before it goes on (0: none, since
\* run_in_executor only hands the task over)
start_project_iteration(qs, ts, service_name) ==
    LET queue == Len(qs) + 1
        opened == Append(qs, [service |-> service_name, state |-> "open"])
    IN IF service_name \in DeclaredServices
       THEN [queues |-> opened,
             tasks |-> Append(ts, [fn |-> "service.start", service |-> service_name,
                                   queue |-> queue, state |-> "scheduled"]),
             awaits |-> 0]
       ELSE [queues |-> [opened EXCEPT ![queue].state = "error: Service not found."],
             tasks |-> ts,
             awaits |-> 0]

\* the loop body of stop_project with the membership test start_project makes
stop_project_iteration_checked(qs, ts, service_name) ==
    LET queue == Len(qs) + 1
        opened == Append(qs, [service |-> service_name, state |-> "open"])
    IN IF service_name \in DeclaredServices
       THEN [queues |-> opened,
             tasks |-> Append(ts, [fn |-> "service.stop", service |-> service_name,
                                   queue |-> queue, state |-> "scheduled"]),
             awaits |-> 0]
       ELSE [queues |-> [opened EXCEPT ![queue].state = "error: Service not found."],
             tasks |-> ts,
             awaits |-> 0]

\* DockerEngine.stop_project, lines 68-81: one pass of the loop
stop_project_iteration(qs, ts, service_name) ==
    LET queue == Len(qs) + 1
    IN [queues |-> Append(qs, [service |-> service_name, state |-> "open"]),
        tasks |-> Append(ts, [fn |-> "service.stop", service |-> service_name,
                              queue |-> queue, state |-> "scheduled"]),
        awaits |-> 0]

\* MultiResultQueue(queues): the queues created by this call, each with the
\* service name it was created for
MultiResultQueue(qs, first) == [q \in (first + 1) .. Len(qs) |-> qs[q].service]

\* self.client.containers.get(container_name)
containers_get(cs, container_name, backend_ok) ==
    IF ~backend_ok THEN Raise("APIError")
    ELSE IF container_name \notin DOMAIN cs THEN Raise("NotFound")
    ELSE Return(cs[container_name])

\* docker.errors.NotFound is a subclass of APIError
IsAPIError(exception) == exception \in {"APIError", "NotFound"}

\* DockerEngine.address_for, lines 103-107: the body of the try
address_for_try(cs, container_name, backend_ok) ==
    LET got == containers_get(cs, container_name, backend_ok)
    IN IF got.kind = "raise" THEN got
       ELSE IF got.value.status # "running" THEN Return(NoAddress)
       ELSE IF RIPTIDE_DOCKER_LABEL_HTTP_PORT \notin DOMAIN got.value.labels
       THEN Raise("KeyError")
       ELSE Return(<<"127.0.0.1", got.value.labels[RIPTIDE_DOCKER_LABEL_HTTP_PORT]>>)

\* address_for without the except KeyError clause
address_for_no_keyerror(cs, service_name, backend_ok) ==
    IF ~DeclaresPort(project.app.services[service_name])
    THEN Return(NoAddress)
    ELSE LET body == address_for_try(cs, ContainerName(service_name), backend_ok)
         IN IF body.kind = "raise" /\ IsAPIError(body.exception)
            THEN Return(NoAddress)
            ELSE body

\* DockerEngine.address_for
address_for(cs, service_name, backend_ok) ==
    IF ~DeclaresPort(project.app.services[service_name])
    THEN Return(NoAddress)
    ELSE LET body == address_for_try(cs, ContainerName(service_name), backend_ok)
         IN IF body.kind = "raise" /\ body.exception = "KeyError"
            THEN Return(NoAddress)
            ELSE IF body.kind = "raise" /\ IsAPIError(body.exception)
            THEN Return(NoAddress)
            ELSE body

\* service.status as DockerEngine.service_status returns it: whether the
\* service's container is running right now
service_status(cs, service_name) ==
    /\ ContainerName(service_name) \in DOMAIN cs
    /\ cs[ContainerName(service_name)].status = "running"

\* cmd_in_service without the check of lines 129-130
cmd_in_service_unchecked(running) == "delegate"

\* DockerEngine.cmd_in_service, lines 129-132: what follows the status query
cmd_in_service_check(running) ==
    IF ~running THEN "raise" ELSE "delegate"

---------------------------------------------------------------------------
(* engine.py: cmd, exec, exec_custom, cmd_detached *)

\* DockerEngine.cmd, lines 119-121: the calls it makes, in order
cmd == <<"network.start", "cmd_fg">>

\* DockerEngine.exec, line 147
exec == <<"exec_fg">>

\* DockerEngine.exec_custom, line 150
exec_custom == <<"exec_fg">>

\* DockerEngine.cmd_detached, lines 160-163
cmd_detached == <<"network.start", "cmd_detached">>

CommandMethods == {"cmd", "exec", "exec_custom", "cmd_detached"}

MethodBody(op) ==
    CASE op = "cmd" -> cmd
      [] op = "exec" -> exec
      [] op = "exec_custom" -> exec_custom
      [] op = "cmd_detached" -> cmd_detached

\* the delegates that run a command in a container
ExecutionDelegates == {"cmd_fg", "cmd_in_service_fg", "exec_fg", "cmd_detached"}

---------------------------------------------------------------------------
(* engine.py: pull_images and __pull_image *)

\* the image references and tags of the project
Repositories == {"img", "img2", "img3"}
Tags == {"1.0", "latest"}

\* ":" in image
HasTagSeparator(image) ==
    \E repository \in Repositories, tag \in Tags : image = repository \o ":" \o tag

\* image if ":" in image else image + ":latest", lines 169 and 176
pull_name(image) == IF HasTagSeparator(image) THEN image ELSE image \o ":latest"

\* the passes of one of the two loops of pull_images that pull an image
RECURSIVE PullItems(_, _, _)
PullItems(kind, docs, keys) ==
    IF Len(keys) = 0 THEN << >>
    ELSE LET name == Head(keys)
             item == [kind |-> kind, name |-> name, image |-> docs[name].image]
         IN (IF kind = "service" \/ "image" \in DOMAIN docs[name]
             THEN <<item>> ELSE << >>)
            \o PullItems(kind, docs, Tail(keys))

\* DockerEngine.pull_images, lines 166-177: the images it goes through
pull_images_worklist(p) ==
    (IF "services" \in DOMAIN p.app
     THEN PullItems("service", p.app.services, KeySeq(p.app.services)) ELSE << >>)
    \o (IF "commands" \in DOMAIN p.app
        THEN PullItems("command", p.app.commands, KeySeq(p.app.commands)) ELSE << >>)

\* the f-strings of lines 168 and 175
PullingMessage(item) ==
    "[" \o item.kind \o "/" \o item.name \o "] Pulling '" \o item.image \o "':\n"

\* the progress lines the runtime may stream
WellFormedLines == {"{\"status\": \"Pulling\", \"progress\": \"[=>]\"}",
                    "{\"status\": \"Pulling\"}"}
MalformedLines == {"garbage", "{\"id\": \"x\"}", "[]"}
ProgressLines == WellFormedLines \cup MalformedLines

\* json.loads(line)
json_loads(line) ==
    CASE line = "{\"status\": \"Pulling\", \"progress\": \"[=>]\"}" ->
             Return([object |-> [status |-> "Pulling", progress |-> "[=>]"]])
      [] line = "{\"status\": \"Pulling\"}" ->
             Return([object |-> [status |-> "Pulling"]])
      [] line = "{\"id\": \"x\"}" -> Return([object |-> [id |-> "x"]])
      [] line = "[]" -> Return([array |-> << >>])
      [] OTHER -> Raise("JSONDecodeError")

IsObject(value) == "object" \in DOMAIN value

\* status[key] for a value json.loads returned
Subscript(value, key) ==
    IF ~IsObject(value) THEN Raise("TypeError")
    ELSE IF key \notin DOMAIN value.object THEN Raise("KeyError")
    ELSE Return(value.object[key])

\* DockerEngine.__pull_image, lines 211-218: the update for one line, or the
\* exception that leaves the inner try
pull_image_line(line) ==
    LET loaded == json_loads(line)
    IN IF loaded.kind = "raise"
       THEN IF loaded.exception = "JSONDecodeError" THEN Return(line) ELSE loaded
       ELSE LET status == loaded.value
                s == Subscript(status, "status")
                p == Subscript(status, "progress")
            IN IF IsObject(status) /\ "progress" \in DOMAIN status.object
               THEN IF s.kind = "raise" THEN s
                    ELSE Return(s.value \o " : " \o p.value)
               ELSE s

\* str(ex) of the APIErrors client.api.pull may raise
APIErrors == {"404 Client Error: Not Found (\"manifest unknown\")",
              "500 Server Error: Internal Server Error (\"timeout\")"}

\* "404 Client Error" in str(ex)
Has404(message) ==
    \E rest \in {": Not Found (\"manifest unknown\")"} :
        message = "404 Client Error" \o rest

\* the except clause of __pull_image with the test of line 222 left out
pull_image_except_all_warned(message) == "warn"

\* DockerEngine.__pull_image, lines 221-225
pull_image_except(message) ==
    IF Has404(message) THEN "warn" ELSE "raise"

\* update_func(...) and self.client.api.pull(...) as entries of the call log
update_func(msg) == [fn |-> "update_func", msg |-> msg]
client_api_pull(image_name) == [fn |-> "client.api.pull", image |-> image_name]

\* the line_reset pull_images is called with
line_reset == "\n"

---------------------------------------------------------------------------
(* The engine's methods as steps *)

InitEngine ==
    /\ IdleMaps
    /\ IdleBuild
    /\ lockScope = "none"
    /\ start_lock = 0
    /\ pc = [s \in PortServices |-> "idle"]
    /\ main_port = [s \in PortServices |-> 0]
    /\ builders = [s \in PortServices |-> InitialBuilder(s)]
    /\ bound = {}
    /\ probes = 0
    /\ call = [op |-> "idle"]
    /\ queues = << >>
    /\ tasks = << >>
    /\ networks = {}
    /\ \E present \in SUBSET DeclaredServices :
          containers \in [{ContainerName(n) : n \in present} -> ContainerStates]
    /\ returned = [op |-> "none"]
    /\ delegated = << >>
    /\ images = {}
    /\ service_doc = [name |-> "none"]
    /\ results = << >>

\* a behaviour follows one call of a DockerEngine method, made in any state
\* of the runtime
CanCall == call.op = "idle" /\ returned.op = "none"

\* the method does not wait, or what it waits for is over
NotBlocked == IF call.awaits = 0 THEN TRUE ELSE tasks[call.awaits].state = "done"

\* start_project entered at its loop, without line 35
CallStartProject_without_network(services) ==
    /\ CanCall
    /\ call' = [op |-> "start_project", services |-> services, i |-> 1,
                at |-> "loop", first |-> Len(queues), awaits |-> 0]
    /\ UNCHANGED <<queues, tasks, networks, containers, returned, delegated, images>>

CallStartProject(services) ==
    /\ CanCall
    /\ call' = [op |-> "start_project", services |-> services, i |-> 1,
                at |-> "network", first |-> Len(queues), awaits |-> 0]
    /\ UNCHANGED <<queues, tasks, networks, containers, returned, delegated, images>>

\* network.start(self.client, project["name"]), line 35
StartProjectNetwork ==
    /\ call.op = "start_project"
    /\ call.at = "network"
    /\ networks' = networks \cup {get_network_name(project.name)}
    /\ call' = [call EXCEPT !.at = "loop"]
    /\ UNCHANGED <<queues, tasks, containers, returned, delegated, images>>

StartProjectIteration ==
    /\ call.op = "start_project"
    /\ call.at = "loop"
    /\ call.i <= Len(call.services)
    /\ NotBlocked
    /\ LET after == start_project_iteration(queues, tasks, call.services[call.i])
       IN /\ queues' = after.queues
          /\ tasks' = after.tasks
          /\ call' = [call EXCEPT !.i = @ + 1, !.awaits = after.awaits]
    /\ UNCHANGED <<networks, containers, returned, delegated, images>>

\* return MultiResultQueue(queues), line 61
StartProjectReturn ==
    /\ call.op = "start_project"
    /\ call.at = "loop"
    /\ call.i > Len(call.services)
    /\ NotBlocked
    /\ returned' = [op |-> "start_project", services |-> call.services,
                    first |-> call.first,
                    result |-> Return(MultiResultQueue(queues, call.first))]
    /\ call' = [op |-> "idle"]
    /\ UNCHANGED <<queues, tasks, networks, containers, delegated, images>>

CallStopProject(services) ==
    /\ CanCall
    /\ call' = [op |-> "stop_project", services |-> services, i |-> 1,
                at |-> "loop", first |-> Len(queues), awaits |-> 0]
    /\ UNCHANGED <<queues, tasks, networks, containers, returned, delegated, images>>

StopProjectIteration ==
    /\ call.op = "stop_project"
    /\ call.i <= Len(call.services)
    /\ NotBlocked
    /\ LET after == stop_project_iteration(queues, tasks, call.services[call.i])
       IN /\ queues' = after.queues
          /\ tasks' = after.tasks
          /\ call' = [call EXCEPT !.i = @ + 1, !.awaits = after.awaits]
    /\ UNCHANGED <<networks, containers, returned, delegated, images>>

\* return MultiResultQueue(queues), line 83
StopProjectReturn ==
    /\ call.op = "stop_project"
    /\ call.i > Len(call.services)
    /\ NotBlocked
    /\ returned' = [op |-> "stop_project", services |-> call.services,
                    first |-> call.first,
                    result |-> Return(MultiResultQueue(queues, call.first))]
    /\ call' = [op |-> "idle"]
    /\ UNCHANGED <<queues, tasks, networks, containers, delegated, images>>

\* a worker of the executor takes a task
TaskRun(t) ==
    /\ tasks[t].state = "scheduled"
    /\ tasks' = [tasks EXCEPT ![t].state = "running"]
    /\ UNCHANGED <<call, queues, networks, containers, returned, delegated, images>>

\* service.start / service.stop comes to its end and ends its queue
TaskFinish(t) ==
    /\ tasks[t].state = "running"
    /\ tasks' = [tasks EXCEPT ![t].state = "done"]
    /\ queues' = [queues EXCEPT ![tasks[t].queue].state = "ended"]
    /\ UNCHANGED <<call, networks, containers, returned, delegated, images>>

\* DockerEngine.address_for: one query of the runtime
AddressFor(service_name, backend_ok) ==
    /\ CanCall
    /\ returned' = [op |-> "address_for", service |-> service_name,
                    backend_ok |-> backend_ok,
                    seen |-> containers,
                    result |-> address_for(containers, service_name, backend_ok)]
    /\ UNCHANGED <<call, queues, tasks, networks, containers, delegated, images>>

CallCmdInService(service_name) ==
    /\ CanCall
    /\ call' = [op |-> "cmd_in_service", service |-> service_name, at |-> "status",
                running |-> FALSE]
    /\ UNCHANGED <<queues, tasks, networks, containers, returned, delegated, images>>

\* self.service_status(project, service_name), line 129
CmdInServiceStatus ==
    /\ call.op = "cmd_in_service"
    /\ call.at = "status"
    /\ call' = [call EXCEPT !.running = service_status(containers, call.service),
                            !.at = "checked"]
    /\ UNCHANGED <<queues, tasks, networks, containers, returned, delegated, images>>

\* raise ServiceStoppedException, line 130
CmdInServiceRaise ==
    /\ call.op = "cmd_in_service"
    /\ call.at = "checked"
    /\ cmd_in_service_check(call.running) = "raise"
    /\ returned' = [op |-> "cmd_in_service", service |-> call.service,
                    running |-> call.running,
                    result |-> Raise("ServiceStoppedException")]
    /\ call' = [op |-> "idle"]
    /\ UNCHANGED <<queues, tasks, networks, containers, delegated, images>>

\* return cmd_in_service_fg(...), line 132, with the exit code it gives
CmdInServiceDelegate(exit_code) ==
    /\ call.op = "cmd_in_service"
    /\ call.at = "checked"
    /\ cmd_in_service_check(call.running) = "delegate"
    /\ delegated' = Append(delegated, [fn |-> "cmd_in_service_fg",
                                       service |-> call.service,
                                       running |-> call.running])
    /\ returned' = [op |-> "cmd_in_service", service |-> call.service,
                    running |-> call.running,
                    result |-> Return(exit_code)]
    /\ call' = [op |-> "idle"]
    /\ UNCHANGED <<queues, tasks, networks, containers, images>>

\* cmd, exec, exec_custom or cmd_detached is called
CallCommand(op) ==
    /\ CanCall
    /\ call' = [op |-> op, step |-> 1]
    /\ UNCHANGED <<queues, tasks, networks, containers, returned, delegated, images>>

\* network.start(self.client, project["name"]), lines 119 and 160
CommandNetwork ==
    /\ call.op \in CommandMethods
    /\ MethodBody(call.op)[call.step] = "network.start"
    /\ networks' = networks \cup {get_network_name(project.name)}
    /\ call' = [call EXCEPT !.step = @ + 1]
    /\ UNCHANGED <<queues, tasks, containers, returned, delegated, images>>

\* the method hands over to its delegate and returns what it returns
CommandDelegate(exit_code) ==
    /\ call.op \in CommandMethods
    /\ MethodBody(call.op)[call.step] \in ExecutionDelegates
    /\ delegated' = Append(delegated, [fn |-> MethodBody(call.op)[call.step],
                                       method |-> call.op])
    /\ returned' = [op |-> call.op, result |-> Return(exit_code)]
    /\ call' = [op |-> "idle"]
    /\ UNCHANGED <<queues, tasks, networks, containers, images>>

CallPullImages ==
    /\ CanCall
    /\ call' = [op |-> "pull_images", i |-> 1, at |-> "next", outcomes |-> << >>,
                lines |-> 0, line |-> None]
    /\ UNCHANGED <<queues, tasks, networks, containers, returned, delegated, images>>

\* one pass of a loop of pull_images up to the first line of the stream:
\* lines 168-170 / 175-177 and 209-210, 221-225; outcome is how
\* client.api.pull answers
PullImagesNext(outcome) ==
    /\ call.op = "pull_images"
    /\ call.at = "next"
    /\ call.i <= Len(pull_images_worklist(project))
    /\ LET item == pull_images_worklist(project)[call.i]
           opened == delegated \o <<update_func(PullingMessage(item)),
                                    client_api_pull(pull_name(item.image))>>
       IN IF outcome = "stream"
          THEN /\ delegated' = opened
               /\ call' = [call EXCEPT !.at = "stream"]
               /\ UNCHANGED returned
          ELSE IF pull_image_except(outcome) = "warn"
          THEN /\ delegated' = Append(opened,
                      update_func(line_reset
                                  \o "    Warning: Image not found in repository.\n"))
               /\ call' = [call EXCEPT !.i = @ + 1,
                                       !.outcomes = Append(@, [state |-> "warned",
                                                               error |-> outcome])]
               /\ UNCHANGED returned
          ELSE /\ delegated' = opened
               /\ returned' = [op |-> "pull_images",
                               outcomes |-> Append(call.outcomes,
                                                   [state |-> "failed", error |-> outcome]),
                               result |-> Raise("APIError")]
               /\ call' = [op |-> "idle"]
    /\ UNCHANGED <<queues, tasks, networks, containers, images>>

\* one pass of the loop of line 210: lines 211-219
PullImageLine(line) ==
    /\ call.op = "pull_images"
    /\ call.at = "stream"
    /\ call.lines < MaxLines
    /\ LET update == pull_image_line(line)
       IN IF update.kind = "return"
          THEN /\ delegated' = Append(delegated,
                                      update_func(line_reset \o "    " \o update.value))
               /\ call' = [call EXCEPT !.lines = @ + 1, !.line = line]
               /\ UNCHANGED returned
          ELSE /\ returned' = [op |-> "pull_images",
                               outcomes |-> Append(call.outcomes,
                                                   [state |-> "failed",
                                                    error |-> update.exception,
                                                    line |-> line]),
                               result |-> update]
               /\ call' = [op |-> "idle"]
               /\ UNCHANGED delegated
    /\ UNCHANGED <<queues, tasks, networks, containers, images>>

\* the stream ends: line 220; the runtime has stored the image
PullImageStreamEnd ==
    /\ call.op = "pull_images"
    /\ call.at = "stream"
    /\ delegated' = Append(delegated, update_func(line_reset \o "    Done!\n"))
    /\ images' = images \cup {pull_name(pull_images_worklist(project)[call.i].image)}
    /\ call' = [call EXCEPT !.i = @ + 1, !.at = "next", !.line = None,
                            !.outcomes = Append(@, [state |-> "done"])]
    /\ UNCHANGED <<queues, tasks, networks, containers, returned>>

\* update_func("Done!\n\n"), line 179
PullImagesDone ==
    /\ call.op = "pull_images"
    /\ call.at = "next"
    /\ call.i > Len(pull_images_worklist(project))
    /\ delegated' = Append(delegated, update_func("Done!\n\n"))
    /\ returned' = [op |-> "pull_images", outcomes |-> call.outcomes,
                    result |-> Return(None)]
    /\ call' = [op |-> "idle"]
    /\ UNCHANGED <<queues, tasks, networks, containers, images>>

\* the runtime: a service container stops, starts or is removed meanwhile
ContainerChange(service_name) ==
    /\ call.op = "cmd_in_service"
    /\ \/ /\ ContainerName(service_name) \in DOMAIN containers
          /\ containers' = [c \in DOMAIN containers \ {ContainerName(service_name)} |->
                               containers[c]]
       \/ \E c \in ContainerStates :
             /\ ContainerName(service_name) \in DOMAIN containers
             /\ containers[ContainerName(service_name)] # c
             /\ containers' = Put(containers, ContainerName(service_name), c)
    /\ UNCHANGED <<call, queues, tasks, networks, returned, delegated, images>>

NextEngine ==
    /\ \/ \E services \in ServiceLists : CallStartProject(services)
       \/ StartProjectNetwork
       \/ StartProjectIteration
       \/ StartProjectReturn
       \/ \E services \in ServiceLists : CallStopProject(services)
       \/ StopProjectIteration
       \/ StopProjectReturn
       \/ \E t \in 1 .. Len(tasks) : TaskRun(t)
       \/ \E t \in 1 .. Len(tasks) : TaskFinish(t)
       \/ \E n \in DeclaredServices, ok \in BOOLEAN : AddressFor(n, ok)
       \/ \E n \in DeclaredServices : CallCmdInService(n)
       \/ CmdInServiceStatus
       \/ CmdInServiceRaise
       \/ \E code \in {0, 1} : CmdInServiceDelegate(code)
       \/ \E n \in DeclaredServices : ContainerChange(n)
       \/ \E op \in CommandMethods : CallCommand(op)
       \/ CommandNetwork
       \/ \E code \in {0, 1} : CommandDelegate(code)
       \/ CallPullImages
       \/ \E outcome \in {"stream"} \cup APIErrors : PullImagesNext(outcome)
       \/ \E line \in ProgressLines : PullImageLine(line)
       \/ PullImageStreamEnd
       \/ PullImagesDone
    /\ UNCHANGED <<portVars, mapVars, buildVars, docVars>>

SpecEngine == InitEngine /\ [][NextEngine]_vars

---------------------------------------------------------------------------
(* Claims about the engine *)

\* the start_project call of this behaviour: the names it was given, the
\* number of queues that existed before, and how many names it has handled
StartCall ==
    IF call.op = "start_project"
    THEN [services |-> call.services, first |-> call.first, handled |-> call.i - 1]
    ELSE [services |-> returned.services, first |-> returned.first,
          handled |-> Len(returned.services)]

TasksOf(q) == {t \in 1 .. Len(tasks) : tasks[t].queue = q}

\* C3: for every list of names given to start_project, every entry that is
\* not declared in the project has its own queue ended with "Service not
\* found." by start_project itself and no task; every entry that is declared
\* has exactly one service.start task and a queue start_project leaves open;
\* and start_project returns (it does not raise). An entry is a position of
\* the list: a name given twice is handled twice.
C3_StartProjectPerName ==
    (call.op = "start_project" \/ returned.op = "start_project") =>
        /\ \A j \in 1 .. StartCall.handled :
              LET q == StartCall.first + j
                  n == StartCall.services[j]
              IN /\ queues[q].service = n
                 /\ n \notin DeclaredServices =>
                       /\ queues[q].state = "error: Service not found."
                       /\ TasksOf(q) = {}
                 /\ n \in DeclaredServices =>
                       /\ Cardinality(TasksOf(q)) = 1
                       /\ \A t \in TasksOf(q) :
                             /\ tasks[t].fn = "service.start"
                             /\ tasks[t].service = n
                             /\ tasks[t].state # "done" => queues[q].state = "open"
        /\ Len(queues) = StartCall.first + StartCall.handled
        /\ \A t \in 1 .. Len(tasks) : tasks[t].queue \in 1 .. Len(queues)
        /\ returned.op = "start_project" => returned.result.kind = "return"

C3_Witness ==
    /\ returned.op = "start_project"
    /\ returned.services = <<"a", "ghost">>
    /\ queues[1].state = "open"
    /\ tasks[1].state = "scheduled"
    /\ queues[2].state = "error: Service not found."
    /\ Len(tasks) = 1

C10_CmdInServiceChecked ==
    /\ \A d \in 1 .. Len(delegated) :
          delegated[d].fn = "cmd_in_service_fg" => delegated[d].running
    /\ (call.op = "cmd_in_service" /\ call.at = "status") => delegated = << >>
    /\ returned.op = "cmd_in_service" =>
          IF returned.running
          THEN returned.result.kind = "return" /\ Len(delegated) = 1
          ELSE returned.result = Raise("ServiceStoppedException") /\ delegated = << >>

C10_Witness ==
    /\ returned.op = "cmd_in_service"
    /\ ~returned.running
    /\ returned.result = Raise("ServiceStoppedException")
    /\ delegated = << >>

\* a call to one of the execution delegates is made in this step
DelegateRuns ==
    /\ Len(delegated') = Len(delegated) + 1
    /\ delegated'[Len(delegated')].fn \in ExecutionDelegates

\* C11: whenever cmd, cmd_in_service, exec, exec_custom or cmd_detached
\* hands the command to its execution delegate, network.start has been
\* called for the project before.
C11_NetworkBeforeDelegate ==
    [][DelegateRuns => get_network_name(project.name) \in networks]_vars

\* the pull_images call of this behaviour: how each pull it began has ended
\* so far, and whether one is under way
PullOutcomes == IF call.op = "pull_images" THEN call.outcomes ELSE returned.outcomes

PullUnderWay == call.op = "pull_images" /\ call.at = "stream"

IsPullCall(d) == d.fn = "client.api.pull"

PullCalls == SelectSeq(delegated, IsPullCall)

NotFoundInRegistry == "404 Client Error: Not Found (\"manifest unknown\")"

\* C12: pull_images pulls one image after another, every service first and
\* then every command that declares an image: a pull begins only when every
\* earlier one has ended. A pull that fails with "not found in registry" is
\* reported as a warning and pull_images goes on to the next image; a pull
\* that fails with any other error is the last one begun and its error ends
\* pull_images; the images of the pulls that completed are in the store.
C12_PullImagesSequential ==
    (call.op = "pull_images" \/ returned.op = "pull_images") =>
        LET W == pull_images_worklist(project)
            O == PullOutcomes
            P == PullCalls
        IN /\ {W[k].name : k \in {j \in 1 .. Len(W) : W[j].kind = "service"}}
                  = DOMAIN project.app.services
           /\ {W[k].name : k \in {j \in 1 .. Len(W) : W[j].kind = "command"}}
                  = {c \in DOMAIN project.app.commands :
                        "image" \in DOMAIN project.app.commands[c]}
           /\ \A j, k \in 1 .. Len(W) :
                 (W[j].kind = "command" /\ W[k].kind = "service") => k < j
           /\ Len(P) = Len(O) + (IF PullUnderWay THEN 1 ELSE 0)
           /\ Len(P) <= Len(W)
           /\ \A k \in 1 .. Len(P) :
                 P[k].image \in {W[k].image, W[k].image \o ":latest"}
           /\ \A k \in 1 .. Len(O) :
                 /\ O[k].state = "done" => P[k].image \in images
                 /\ ("error" \in DOMAIN O[k] /\ O[k].error = NotFoundInRegistry) =>
                       /\ O[k].state = "warned"
                       /\ \E d \in 1 .. Len(delegated) :
                             delegated[d] = update_func(
                                 "\n    Warning: Image not found in repository.\n")
                 /\ ("error" \in DOMAIN O[k] /\ O[k].error # NotFoundInRegistry) =>
                       /\ O[k].state = "failed"
                       /\ k = Len(O)
                       /\ returned.op = "pull_images"
                       /\ returned.result.kind = "raise"
           /\ (returned.op = "pull_images" /\ returned.result.kind = "return") =>
                 Len(P) = Len(W)

\* the first image is pulled, the second is not in the registry, the third
\* fails otherwise: the first is in the store and the error has been raised
C12_Witness ==
    /\ returned.op = "pull_images"
    /\ Len(returned.outcomes) = 3
    /\ returned.outcomes[1].state = "done"
    /\ returned.outcomes[2].state = "warned"
    /\ returned.outcomes[3].state = "failed"
    /\ returned.result = Raise("APIError")
    /\ Cardinality(images) = 1

\* C13: a progress line whose payload is malformed (not JSON, or JSON
\* without the status field, or JSON that is not an object) is handed raw to
\* the progress callback and the pull goes on; no progress line makes the
\* pull fail.
C13_MalformedLinesPassThrough ==
    /\ (call.op = "pull_images" /\ call.at = "stream" /\ call.line \in MalformedLines) =>
          delegated[Len(delegated)] = update_func("\n    " \o call.line)
    /\ (call.op = "pull_images" \/ returned.op = "pull_images") =>
          \A k \in 1 .. Len(PullOutcomes) : "line" \notin DOMAIN PullOutcomes[k]

\* the stop_project call of this behaviour, as StartCall
StopCall ==
    IF call.op = "stop_project"
    THEN [services |-> call.services, first |-> call.first, handled |-> call.i - 1]
    ELSE [services |-> returned.services, first |-> returned.first,
          handled |-> Len(returned.services)]

\* C14: for every list of names given to stop_project, every entry, declared
\* in the project or not and with or without a container, has its own queue
\* and exactly one service.stop task; stop_project itself ends no queue (a
\* queue stays open until its task has finished) and returns (it does not
\* raise).
C14_StopProjectPerName ==
    (call.op = "stop_project" \/ returned.op = "stop_project") =>
        /\ \A j \in 1 .. StopCall.handled :
              LET q == StopCall.first + j
                  n == StopCall.services[j]
              IN /\ queues[q].service = n
                 /\ Cardinality(TasksOf(q)) = 1
                 /\ \A t \in TasksOf(q) :
                       /\ tasks[t].fn = "service.stop"
                       /\ tasks[t].service = n
                       /\ tasks[t].state # "done" => queues[q].state = "open"
                       /\ tasks[t].state = "done" => queues[q].state = "ended"
        /\ Len(queues) = StopCall.first + StopCall.handled
        /\ Len(tasks) = StopCall.handled
        /\ returned.op = "stop_project" => returned.result.kind = "return"

\* an undeclared name and a declared service without a container, both with
\* a task and an open queue at return
C14_Witness ==
    /\ returned.op = "stop_project"
    /\ returned.services = <<"ghost", "b">>
    /\ ContainerName("b") \notin DOMAIN containers
    /\ Len(tasks) = 2
    /\ tasks[1] = [fn |-> "service.stop", service |-> "ghost", queue |-> 1,
                   state |-> "scheduled"]
    /\ queues[1].state = "open"
    /\ queues[2].state = "open"

\* C19: in start_project, for every list of names (one with undeclared names
\* only included), network.start has been called for the project before the
\* first queue is created or ended and before the first service.start task is
\* handed to the executor.
C19_NetworkBeforeStartTasks ==
    (call.op = "start_project" \/ returned.op = "start_project") =>
        /\ (call.op = "start_project" /\ call.at = "network") =>
              (queues = << >> /\ tasks = << >>)
        /\ (queues # << >> \/ tasks # << >> \/ returned.op = "start_project") =>
              get_network_name(project.name) \in networks

\* only an undeclared name was asked for: its queue has been ended, no task
\* exists and the network has been ensured
C19_Witness ==
    /\ returned.op = "start_project"
    /\ returned.services = <<"ghost">>
    /\ queues[1].state = "error: Service not found."
    /\ tasks = << >>
    /\ networks = {"riptide__proj"}

---------------------------------------------------------------------------
(* One service: its builder is initialised from the document, then the main
   port is added; the functions behind it applied on their own *)

\* a declared environment that uses names of the wrapper's contract
ContractEnvironment ==
    (EENV_USER :> "x") @@ (EENV_RUN_MAIN_CMD_AS_USER :> "no")
        @@ (EENV_ORIGINAL_ENTRYPOINT :> "mine")
        @@ (EENV_COMMAND_LOG_PREFIX \o "build" :> "x")

\* the service documents: the declared volumes may use the host path of the
\* wrapper script, the declared environment names of the wrapper's contract
ServiceDocuments ==
    {[dont_create_user |-> dont_create_user,
      run_as_current_user |-> run_as_current_user,
      volumes |-> volumes,
      environment |-> environment,
      additional_ports |-> additional_ports,
      project |-> "proj"]
        @@ ("$name" :> "a") @@ port @@ extras :
     dont_create_user \in BOOLEAN,
     run_as_current_user \in BOOLEAN,
     volumes \in {EmptyDict, ("/h1" :> [bind |-> "/c1", mode |-> None]),
                  (ENTRYPOINT_SCRIPT :> [bind |-> "/elsewhere", mode |-> "rw"])},
     environment \in {EmptyDict, ("A" :> "1"), ContractEnvironment},
     additional_ports \in {EmptyDict, (443 :> 8443), (80 :> 8080)},
     port \in {EmptyDict, [port |-> 80]},
     extras \in {EmptyDict,
                 [roles |-> <<"main">>,
                  logging |-> [commands |-> [build |-> "make"]]]}}

\* the image metadata: the entrypoint in every form, the default user
\* absent, empty or set
ParseInputs ==
    Entrypoints \cup {Str(""), List(<< >>), List(<<"/bin/foo", "a", "b">>)}

ImageConfigs ==
    {[Entrypoint |-> e] : e \in ParseInputs}
        \cup {[Entrypoint |-> e, User |-> u] : e \in ParseInputs, u \in {"", "www"}}

\* getuid() and getgid() of the invoking user
UserIds == {0, 1000}

InitService ==
    /\ IdleMaps
    /\ IdleEngine
    /\ lockScope = "none"
    /\ start_lock = 0
    /\ pc = [s \in PortServices |-> "idle"]
    /\ main_port = [s \in PortServices |-> 0]
    /\ builders = [s \in PortServices |-> InitialBuilder(s)]
    /\ bound = DOCKER_ENGINE_HTTP_PORT_BND_START ..
                    (DOCKER_ENGINE_HTTP_PORT_BND_START + MaxForeign - 1)
    /\ probes = 0
    /\ image_config \in ImageConfigs
    /\ platform_system = "Linux"
    /\ lastOp = "init"
    /\ steps = 0
    /\ api = [built |-> FALSE]
    /\ cli = [built |-> FALSE]

\* builder.init_from_service(service, image_config)
InitFromService(service, user, user_group) ==
    /\ lastOp = "init"
    /\ returned.op = "none"
    /\ service_doc' = service
    /\ builder' = init_from_service(builder, service, image_config, user, user_group,
                      find_open_port_starting_at(DOCKER_ENGINE_HTTP_PORT_BND_START, bound))
    /\ image_config' = enable_riptide_entrypoint_leaves(image_config)
    /\ lastOp' = "init_from_service"
    /\ UNCHANGED <<probes, returned>>

\* builder.service_add_main_port(service)
ServiceAddMainPort ==
    /\ lastOp = "init_from_service"
    /\ builder' = service_add_main_port(builder, service_doc,
                      find_open_port_starting_at(DOCKER_ENGINE_HTTP_PORT_BND_START, bound))
    /\ probes' = IF DeclaresPort(service_doc) THEN probes + 1 ELSE probes
    /\ lastOp' = "service_add_main_port"
    /\ UNCHANGED <<image_config, service_doc, returned>>

\* parse_entrypoint(image_config["Entrypoint"]) called on its own
ParseEntrypoint ==
    /\ lastOp = "init"
    /\ returned.op = "none"
    /\ returned' = [op |-> "parse_entrypoint",
                    entrypoint |-> image_config.Entrypoint,
                    result |-> parse_entrypoint(image_config.Entrypoint)]
    /\ image_config' = enable_riptide_entrypoint_leaves(image_config)
    /\ UNCHANGED <<builder, service_doc, probes, lastOp>>

\* service_collect_entrypoint_user_settings(service, getuid(), getgid(),
\* image_config) called on its own
ServiceCollectEntrypointUserSettings(service, user, user_group) ==
    /\ lastOp = "init"
    /\ returned.op = "none"
    /\ returned' = [op |-> "service_collect_entrypoint_user_settings",
                    service |-> service, user |-> user, user_group |-> user_group,
                    image_config |-> image_config,
                    result |-> service_collect_entrypoint_user_settings(
                                   service, user, user_group, image_config)]
    /\ UNCHANGED <<builder, service_doc, probes, image_config, lastOp>>

\* the Command documents
CommandDocuments ==
    {[volumes |-> EmptyDict, environment |-> environment] :
        environment \in {EmptyDict, ("A" :> "1")}}

\* a second builder, for a command, initialised from the same image metadata
\* object: ContainerBuilder(...).init_from_command(command, image_config)
InitFromCommand(command) ==
    /\ lastOp \in {"init", "init_from_service"}
    /\ returned.op = "none"
    /\ returned' = [op |-> "init_from_command",
                    entrypoint |-> image_config.Entrypoint,
                    result |-> init_from_command(ContainerBuilder("image", Str("cmd")),
                                                 command, image_config)]
    /\ image_config' = enable_riptide_entrypoint_leaves(image_config)
    /\ UNCHANGED <<builder, service_doc, probes, lastOp>>

NextService ==
    /\ \/ \E service \in ServiceDocuments, user \in UserIds :
             InitFromService(service, user, user)
       \/ ServiceAddMainPort
       \/ ParseEntrypoint
       \/ \E service \in ServiceDocuments, user, user_group \in UserIds :
             ServiceCollectEntrypointUserSettings(service, user, user_group)
       \/ \E command \in CommandDocuments : InitFromCommand(command)
    /\ UNCHANGED <<lockScope, start_lock, pc, main_port, builders, bound, calls,
                   platform_system, steps, api, cli, call, queues, tasks, networks,
                   containers, delegated, images, results>>

SpecService == InitService /\ [][NextService]_vars

---------------------------------------------------------------------------
(* Claims about the entrypoint protocol, the privilege rule and the
   initialisation from a service *)

\* C15: for an entrypoint given as a list [exe, a1, ..., an], parse_entrypoint
\* returns the original-entrypoint variable alone, and its value is exe
\* followed by each argument in double quotes, the words separated by single
\* spaces; the don't-run flag is not set.
C15_ExecFormFlattened ==
    (returned.op = "parse_entrypoint" /\ IsList(returned.entrypoint)
        /\ Len(returned.entrypoint.list) > 0) =>
        LET exe == Head(returned.entrypoint.list)
            arguments == Tail(returned.entrypoint.list)
        IN returned.result =
               (EENV_ORIGINAL_ENTRYPOINT :> Join(<<exe>> \o Quoted(arguments), " "))

\* C16: parse_entrypoint sets the don't-run flag, to "true", exactly when
\* the entrypoint is a string (a set one: the empty string counts as no
\* entrypoint), and then the original entrypoint is "/bin/sh -c " followed
\* by the string; for an entrypoint that is absent the result is the
\* original-entrypoint variable alone, with the empty string.
C16_ShellFormFlag ==
    returned.op = "parse_entrypoint" =>
        LET e == returned.entrypoint
            shell == IsStr(e) /\ e.str # ""
        IN /\ (EENV_DONT_RUN_CMD \in DOMAIN returned.result) <=> shell
           /\ shell => returned.result =
                           (EENV_ORIGINAL_ENTRYPOINT :> "/bin/sh -c " \o e.str)
                               @@ (EENV_DONT_RUN_CMD :> "true")
           /\ (e = NoneValue \/ e = Str("") \/ e = List(<< >>)) =>
                 returned.result = (EENV_ORIGINAL_ENTRYPOINT :> "")

C16_Witness ==
    /\ returned.op = "parse_entrypoint"
    /\ returned.entrypoint = Str("echo hi")
    /\ returned.result = [RIPTIDE__DOCKER_ORIGINAL_ENTRYPOINT |-> "/bin/sh -c echo hi",
                          RIPTIDE__DOCKER_DONT_RUN_CMD |-> "true"]

\* C17: for every value of dont_create_user and run_as_current_user and for
\* an image default user that is absent, empty or set,
\* service_collect_entrypoint_user_settings gives the uid and gid variables
\* (the invoking user's) iff dont_create_user is not set, run-main-as-user =
\* "yes" iff run_as_current_user is set or the image's user is set, and the
\* user-to-run-as variable, equal to the image's user, iff
\* run_as_current_user is not set and the image's user is set; nothing else.
C17_PrivilegeRule ==
    returned.op = "service_collect_entrypoint_user_settings" =>
        LET r == returned.result
            s == returned.service
            imageUser == "User" \in DOMAIN returned.image_config
                            /\ returned.image_config.User # ""
        IN /\ DOMAIN r \subseteq {EENV_USER, EENV_GROUP, EENV_RUN_MAIN_CMD_AS_USER,
                                  EENV_USER_RUN}
           /\ (EENV_USER \in DOMAIN r) <=> ~s.dont_create_user
           /\ (EENV_GROUP \in DOMAIN r) <=> ~s.dont_create_user
           /\ ~s.dont_create_user =>
                 /\ r[EENV_USER] = ToString(returned.user)
                 /\ r[EENV_GROUP] = ToString(returned.user_group)
           /\ (EENV_RUN_MAIN_CMD_AS_USER \in DOMAIN r)
                 <=> (s.run_as_current_user \/ imageUser)
           /\ EENV_RUN_MAIN_CMD_AS_USER \in DOMAIN r => r[EENV_RUN_MAIN_CMD_AS_USER] = "yes"
           /\ (EENV_USER_RUN \in DOMAIN r) <=> (~s.run_as_current_user /\ imageUser)
           /\ EENV_USER_RUN \in DOMAIN r => r[EENV_USER_RUN] = returned.image_config.User

\* run_as_current_user is set and the image names a user: the image's user
\* is not handed on
C17_Witness ==
    /\ returned.op = "service_collect_entrypoint_user_settings"
    /\ returned.service.run_as_current_user
    /\ ~returned.service.dont_create_user
    /\ "User" \in DOMAIN returned.image_config
    /\ returned.image_config.User = "www"
    /\ returned.user = 1000
    /\ returned.user_group = 0
    /\ returned.result = [RIPTIDE__DOCKER_USER |-> "1000",
                          RIPTIDE__DOCKER_GROUP |-> "0",
                          RIPTIDE__DOCKER_RUN_MAIN_CMD_AS_USER |-> "yes"]

---------------------------------------------------------------------------
(* Container names, computed by the processes that run commands *)

\* the name without the process id
get_cmd_container_name_without_pid(project_name, command_name, pid) ==
    "riptide__" \o project_name \o "__cmd__" \o command_name

\* get_cmd_container_name, where pid is os.getpid() of the calling process
get_cmd_container_name(project_name, command_name, pid) ==
    "riptide__" \o project_name \o "__cmd__" \o command_name \o "__" \o ToString(pid)

\* the processes, and the names of projects, commands and services
Pids == {1, 11}
ProjectNames == {"p", "p__cmd__c"}
CommandNames == {"c", "c__1"}
ServiceNames == {"c", "cmd__c"}

InitNames ==
    /\ IdleMaps
    /\ IdleBuild
    /\ IdleEngine
    /\ lockScope = "none"
    /\ start_lock = 0
    /\ pc = [s \in PortServices |-> "idle"]
    /\ main_port = [s \in PortServices |-> 0]
    /\ builders = [s \in PortServices |-> InitialBuilder(s)]
    /\ bound = {}
    /\ probes = 0

\* process pid calls get_cmd_container_name
GetCmdContainerName(pid, project_name, command_name) ==
    /\ Len(results) < MaxRuns
    /\ results' = Append(results,
                     [fn |-> "get_cmd_container_name", pid |-> pid,
                      project |-> project_name, item |-> command_name,
                      name |-> get_cmd_container_name(project_name, command_name, pid)])

\* process pid calls get_service_container_name
GetServiceContainerName(pid, project_name, service_name) ==
    /\ Len(results) < MaxRuns
    /\ results' = Append(results,
                     [fn |-> "get_service_container_name", pid |-> pid,
                      project |-> project_name, item |-> service_name,
                      name |-> get_service_container_name(project_name, service_name)])

NextNames ==
    /\ \/ \E pid \in Pids, p \in ProjectNames, c \in CommandNames :
             GetCmdContainerName(pid, p, c)
       \/ \E pid \in Pids, p \in ProjectNames, s \in ServiceNames :
             GetServiceContainerName(pid, p, s)
    /\ UNCHANGED <<portVars, mapVars, buildVars, engineVars, service_doc>>

SpecNames == InitNames /\ [][NextNames]_vars

\* C18: two computations of a command-container name for the same project
\* and command by the same process give the same name, and two by processes
\* with different ids give different names, whatever the projects and
\* commands; two computations of a service-container name for the same
\* project and service give the same name, whichever process computes it.
C18_ContainerNames ==
    \A i, j \in 1 .. Len(results) :
        LET x == results[i]
            y == results[j]
        IN /\ (x.fn = "get_cmd_container_name" /\ y.fn = "get_cmd_container_name") =>
                 /\ (x.pid = y.pid /\ x.project = y.project /\ x.item = y.item)
                       => x.name = y.name
                 /\ x.pid # y.pid => x.name # y.name
           /\ (x.fn = "get_service_container_name"
                 /\ y.fn = "get_service_container_name") =>
                 ((x.project = y.project /\ x.item = y.item) => x.name = y.name)

\* the same command of the same project run by two processes
C18_Witness ==
    /\ Len(results) = 2
    /\ results[1].fn = "get_cmd_container_name"
    /\ results[2].fn = "get_cmd_container_name"
    /\ results[1].project = results[2].project
    /\ results[1].item = results[2].item
    /\ results[1].pid # results[2].pid
    /\ results[1].name = "riptide__p__cmd__c__1"
    /\ results[2].name = "riptide__p__cmd__c__11"

\* C21: parse_entrypoint, and with it init_from_service and
\* init_from_command, leaves the image metadata as it was given: after a call
\* the entrypoint of the metadata object is the one that was passed in, and a
\* builder initialised second from the same object has the same
\* original-entrypoint variable as the one initialised first.
C21_ImageMetadataUnchanged ==
    /\ returned.op \in {"parse_entrypoint", "init_from_command"} =>
          (lastOp = "init" => image_config.Entrypoint = returned.entrypoint)
    /\ (lastOp = "init_from_service" /\ returned.op = "init_from_command"
           /\ EENV_ORIGINAL_ENTRYPOINT \notin DOMAIN service_doc.environment) =>
          returned.result.env[EENV_ORIGINAL_ENTRYPOINT]
              = builder.env[EENV_ORIGINAL_ENTRYPOINT]

\* C22: after init_from_service every variable computed by the logging rule
\* and the privilege rule holds its computed value, also when the declared
\* environment defines the same name; every other declared environment
\* entry holds its declared value, the original-entrypoint variable set by
\* enable_riptide_entrypoint included, and every declared volume is mounted
\* as declared, the wrapper script's host path included.
C22_ApplicationOrder ==
    lastOp = "init_from_service" =>
        LET declared == service_doc.environment
            volumes == service_doc.volumes
            logging == IF "logging" \in DOMAIN service_doc
                       THEN ("RIPTIDE__DOCKER_CMD_LOGGING_build" :> "make")
                       ELSE EmptyDict
            imageUser == "User" \in DOMAIN image_config /\ image_config.User # ""
            env == builder.env
        IN /\ \A k \in DOMAIN logging : env[k] = logging[k]
           /\ ~service_doc.dont_create_user =>
                 /\ env[EENV_USER] \in {ToString(u) : u \in UserIds}
                 /\ env[EENV_GROUP] = env[EENV_USER]
           /\ (service_doc.run_as_current_user \/ imageUser) =>
                 env[EENV_RUN_MAIN_CMD_AS_USER] = "yes"
           /\ (~service_doc.run_as_current_user /\ imageUser) =>
                 env[EENV_USER_RUN] = image_config.User
           /\ EENV_ORIGINAL_ENTRYPOINT \in DOMAIN declared =>
                 env[EENV_ORIGINAL_ENTRYPOINT] = declared[EENV_ORIGINAL_ENTRYPOINT]
           /\ (EENV_USER \in DOMAIN declared /\ service_doc.dont_create_user) =>
                 env[EENV_USER] = declared[EENV_USER]
           /\ "A" \in DOMAIN declared => env["A"] = declared["A"]
           /\ \A h \in DOMAIN volumes :
                 /\ builder.mounts[h].Target = volumes[h].bind
                 /\ builder.mounts[h].ReadOnly = (volumes[h].mode = "ro")
           /\ ENTRYPOINT_SCRIPT \notin DOMAIN volumes =>
                 builder.mounts[ENTRYPOINT_SCRIPT].Target = ENTRYPOINT_CONTAINER_PATH

\* the declared environment and a declared volume reuse the wrapper's names:
\* the computed variables win, the entrypoint variable and the wrapper's
\* mount lose
C22_Witness ==
    /\ lastOp = "init_from_service"
    /\ service_doc.environment = ContractEnvironment
    /\ ENTRYPOINT_SCRIPT \in DOMAIN service_doc.volumes
    /\ "logging" \in DOMAIN service_doc
    /\ ~service_doc.dont_create_user
    /\ service_doc.run_as_current_user
    /\ builder.env = [RIPTIDE__DOCKER_USER |-> "1000",
                      RIPTIDE__DOCKER_GROUP |-> "1000",
                      RIPTIDE__DOCKER_RUN_MAIN_CMD_AS_USER |-> "yes",
                      RIPTIDE__DOCKER_CMD_LOGGING_build |-> "make",
                      RIPTIDE__DOCKER_ORIGINAL_ENTRYPOINT |-> "mine"]
    /\ builder.mounts["/assets/entrypoint.sh"].Target = "/elsewhere"

===========================================================================
